---- MODULE Spec2Model ----
(***************************************************************************)
(* A model of three Blender add-ons:                                       *)
(*   script_auto_complete/ui.py      - the auto-complete modal operator    *)
(*   object_print3d_utils/mesh_helpers.py - ray-cast checks and sampling   *)
(*   oscurart_tools/oscurart_meshes.py - symmetry map, vertex groups       *)
(* The add-ons share no state, so each has its own specification over the  *)
(* same variables: SpecModal (SpecModalFair with events kept coming),      *)
(* SpecCheck, SpecSample, and for the symmetry map SpecSym, SpecVG,        *)
(* SpecRead, SpecSave, SpecMirror and SpecWeights.                         *)
(***************************************************************************)
EXTENDS Integers, Sequences, FiniteSets, TLC

VARIABLES
    \* ---- script_auto_complete/ui.py
    running,      \* the module global `running`
    ops,          \* every StartAutoCompletion instance the host has invoked
    lastModal,    \* what the last modal() callback saw and returned
    \* ---- object_print3d_utils/mesh_helpers.py, the two ray-cast checks
    pc,           \* "idle", "intersect" (in the edge loop) or "thick" (face loop)
    orig,         \* the checked mesh: side count of each original face
    proxy,        \* bm.faces after triangulation: <<[id, org], ...>>
    face_map,     \* ret["face_map"]: new face id -> original face id
    todo,         \* loop cursor: edges left, or <<face position, points left>>
    faces_error,  \* the set faces_error
    expected,     \* history: original face of every proxy face recorded so far
    lastHit,      \* index returned by the last ray_cast
    tmp,          \* temporary data blocks alive: objects, meshes, scene links
    ret,          \* how the last check ended
    \* ---- object_print3d_utils/mesh_helpers.py, bmesh_face_points_random
    rng,          \* the global generator of module `random`: [seed, n draws since]
    call,         \* the arguments: [f: [index, verts], num_points, margin]
    gen,          \* per generator object: points left to yield, first next() done
    out,          \* per generator object: the points it has yielded
    first,        \* history: <<out>> of the first call that ran to its end
    folded,       \* history: the current call folded a sample pair
    \* ---- oscurart_tools/oscurart_meshes.py, the symmetry map
    verts,        \* the active object's vertices: <<[co, select, groups], ...>>
    vertex_groups,\* len(OBACTIVO.vertex_groups)
    vg_active,    \* OBACTIVO.vertex_groups.active.index, -1 for active None
    filepath,     \* bpy.data.filepath, as path tokens
    cwd,          \* the working directory of the process, as path tokens
    symfile,      \* the <scene>_<object>_SYM_TEMPLATE.xml file reSymSave writes
    opres,        \* the last operator run on the mesh and how it ended
    moved         \* history: vertices moved since the map was saved

varsModal == <<running, ops, lastModal>>
varsCheck == <<pc, orig, proxy, face_map, todo, faces_error, expected, lastHit,
               tmp, ret>>
varsSample == <<rng, call, gen, out, first, folded>>
varsSym == <<verts, vertex_groups, vg_active, filepath, cwd, symfile, opres,
            moved>>
vars == <<varsModal, varsCheck, varsSample, varsSym>>

(***************************************************************************)
(*                    script_auto_complete / ui.py                         *)
(***************************************************************************)

\* Number of StartAutoCompletion invocations explored.
MaxOps == 3

NoModal == [op |-> 0, ret |-> "NONE", text |-> FALSE, updated |-> FALSE,
            blocked |-> FALSE, wasRunning |-> FALSE]

\* ui.py:6
InitModal ==
    /\ running = FALSE
    /\ ops = << >>
    /\ lastModal = NoModal

\* ui.py:7-9
start == running' = TRUE

\* ui.py:10-12
stop == running' = FALSE

\* ui.py:32-34
StartPoll == ~running

\* ui.py:75-77
StopPoll == running

\* ui.py:50-55. A fresh operator instance gets a fresh ModalHandler and is
\* registered with the window manager; `frees` counts modal_handler.free().
Invoke ==
    /\ StartPoll
    /\ Len(ops) < MaxOps
    /\ ops' = Append(ops, [registered |-> TRUE, frees |-> 0, updates |-> FALSE])
    /\ start
    /\ UNCHANGED lastModal

\* ui.py:79-81
StopExecute ==
    /\ StopPoll
    /\ stop
    /\ UNCHANGED <<ops, lastModal>>

\* ModalReturn of a modal() that consults update() without asking whether
\* an active text block exists.
ModalReturnNoTextTest(running_, text, blocked) ==
    IF ~running_ THEN "FINISHED"
    ELSE IF ~blocked THEN "PASS_THROUGH" ELSE "RUNNING_MODAL"

\* ui.py:36-48, the value modal() returns. `running_` is the global flag,
\* `text` is active_text_block_exists(), `blocked` is what
\* modal_handler.update(event) would answer.
ModalReturn(running_, text, blocked) ==
    IF ~running_ THEN "FINISHED"
    ELSE LET block_event == IF text THEN blocked ELSE FALSE
         IN  IF ~block_event THEN "PASS_THROUGH" ELSE "RUNNING_MODAL"

\* ui.py:42-44: update() is called only behind active_text_block_exists().
ModalCallsUpdate(running_, text) == running_ /\ text

\* ui.py:37-38: free() is called only when the flag is down.
ModalCallsFree(running_) == ~running_

\* ui.py:36-48. The host delivers an event to registered operator i. A
\* FINISHED return makes the host drop the operator's modal handler.
Modal(i, text, blocked) ==
    /\ i \in 1..Len(ops)
    /\ ops[i].registered
    /\ LET status == ModalReturn(running, text, blocked)
       IN  /\ ops' = [ops EXCEPT
                  ![i].registered = (status # "FINISHED"),
                  ![i].frees = IF ModalCallsFree(running) THEN @ + 1 ELSE @,
                  ![i].updates = @ \/ ModalCallsUpdate(running, text)]
           /\ lastModal' = [op |-> i, ret |-> status, text |-> text,
                            updated |-> ModalCallsUpdate(running, text),
                            blocked |-> blocked, wasRunning |-> running]
    /\ UNCHANGED running

NextModal ==
    \/ Invoke /\ UNCHANGED <<varsCheck, varsSample, varsSym>>
    \/ StopExecute /\ UNCHANGED <<varsCheck, varsSample, varsSym>>
    \/ \E i \in 1..MaxOps, text \in BOOLEAN, blocked \in BOOLEAN :
            Modal(i, text, blocked) /\ UNCHANGED <<varsCheck, varsSample, varsSym>>

(***************************************************************************)
(*        object_print3d_utils / mesh_helpers.py : ray-cast checks         *)
(***************************************************************************)

\* The global generator of module `random`, as the seed it was last given
\* and the number of draws since. Before any random.seed() of the program
\* it is seeded by the interpreter from a source the program does not know.
Unseeded == [seed |-> -1, n |-> 0]

\* random.seed(a): an int seeds by its absolute value.
RandomSeed(a) == [seed |-> IF a < 0 THEN 0 - a ELSE a, n |-> 0]

\* The state after one random().
RandomNext(state) ==
    IF state.seed = -1 THEN state ELSE [state EXCEPT !.n = @ + 1]

\* Input meshes: up to MaxFaces faces of 3..MaxSides sides, plus up to
\* MaxLoose edges that belong to no face.
MaxFaces == 2
MaxSides == 4
MaxLoose == 1
\* Temporary data blocks that may pile up before the model stops checking.
MaxTemp == 1

\* mesh_helpers.py:226, num_points=6
NumPoints == 6

Meshes ==
    { [faces |-> f, loose |-> l] :
        f \in UNION { [1..n -> 3..MaxSides] : n \in 0..MaxFaces },
        l \in 0..MaxLoose }

\* The faces bmesh.ops.triangulate adds for original faces k..Len(faces):
\* a face of s sides keeps its own BMFace as one triangle and gets s - 3
\* new ones, appended to bm.faces. `id` is the BMFace (its creation rank),
\* `org` the 0-based index of the original face it was cut from.
RECURSIVE NewFaces(_, _, _)
NewFaces(faces, k, nextId) ==
    IF k > Len(faces) THEN << >>
    ELSE LET n == faces[k] - 3
             mine == IF n = 0 THEN << >>
                     ELSE [j \in 1..n |-> [id |-> nextId + j - 1, org |-> k - 1]]
         IN  mine \o NewFaces(faces, k + 1, nextId + n)

\* mesh_helpers.py:120 / 199, bm.faces after bmesh.ops.triangulate.
Triangulate(faces) ==
    [k \in 1..Len(faces) |-> [id |-> k - 1, org |-> k - 1]]
    \o NewFaces(faces, 1, Len(faces))

\* mesh_helpers.py:121 / 200, ret["face_map"]: every new face, and every
\* face that was split, maps to the face it was cut from.
FaceMapOf(faces) ==
    LET tris == Triangulate(faces)
        split == { tris[p].id : p \in { q \in 1..Len(faces) : faces[q] > 3 } }
        new == { tris[p].id : p \in (Len(faces) + 1)..Len(tris) }
    IN  [f \in split \cup new |->
            tris[CHOOSE p \in 1..Len(tris) : tris[p].id = f].org]

\* mesh_helpers.py:119 / 198, {f: i for i, f in enumerate(bm.faces)} taken
\* before triangulation: BMFace id -> original index.
FaceIndexMapOrg(faces) == [f \in 0..(Len(faces) - 1) |-> f]

\* dict.get(key, default)
Get(map, key, default) == IF key \in DOMAIN map THEN map[key] ELSE default

\* mesh_helpers.py:123, face_map_index[i] for proxy face index i.
FaceMapIndex(i) ==
    FaceIndexMapOrg(orig)[Get(face_map, proxy[i + 1].id, proxy[i + 1].id)]

\* FOrgIndex without the face maps: the proxy index is recorded as it is.
FOrgIndexUnmapped(i) == i

\* mesh_helpers.py:237-238, f_org_index of the proxy face at index i.
FOrgIndex(i) ==
    LET f_iter == proxy[i + 1].id
        f_org == Get(face_map, f_iter, f_iter)
    IN  FaceIndexMapOrg(orig)[f_org]

\* Edges of the temporary mesh: each face of s sides has its s edges and the
\* s - 3 diagonals triangulation adds; loose edges stay.
RECURSIVE EdgeCount(_, _)
EdgeCount(faces, k) ==
    IF k > Len(faces) THEN 0
    ELSE faces[k] + (faces[k] - 3) + EdgeCount(faces, k + 1)

NoTemp == [objects |-> 0, meshes |-> 0, linked |-> 0]

\* No check has returned or raised yet, or one is under way.
NoReturn == [check |-> "none", status |-> "none", value |-> {}]

InitCheck ==
    /\ pc = "idle"
    /\ orig = << >>
    /\ proxy = << >>
    /\ face_map = << >>
    /\ todo = <<0, 0>>
    /\ faces_error = {}
    /\ expected = {}
    /\ lastHit = -1
    /\ tmp = NoTemp
    /\ ret = NoReturn

\* mesh_helpers.py:129-134 / 208-213: meshes.new, objects.new, objects.link.
MakeTemp ==
    tmp' = [objects |-> tmp.objects + 1, meshes |-> tmp.meshes + 1,
            linked |-> tmp.linked + 1]

\* mesh_helpers.py:159-161 / 244-246: unlink, objects.remove, meshes.remove.
RemoveTemp ==
    tmp' = [objects |-> tmp.objects - 1, meshes |-> tmp.meshes - 1,
            linked |-> tmp.linked - 1]

\* The function is left, by return or by an exception: its bmesh, face maps,
\* loop position and error set go; the object it was given stays.
Leave ==
    /\ pc' = "idle"
    /\ proxy' = << >>
    /\ face_map' = << >>
    /\ todo' = <<0, 0>>
    /\ faces_error' = {}
    /\ expected' = {}
    /\ lastHit' = -1
    /\ UNCHANGED orig

\* mesh_helpers.py:118-140, bmesh_check_self_intersect_object up to the loop.
IntersectBegin(m) ==
    /\ pc = "idle"
    /\ tmp.objects < MaxTemp
    /\ pc' = "intersect"
    /\ orig' = m.faces
    /\ proxy' = Triangulate(m.faces)
    /\ face_map' = FaceMapOf(m.faces)
    /\ todo' = <<m.loose + EdgeCount(m.faces, 1), 0>>
    /\ faces_error' = {}
    /\ expected' = {}
    /\ lastHit' = -1
    /\ MakeTemp
    /\ ret' = NoReturn

\* mesh_helpers.py:142-157, one pass of the edge loop; `index` is what
\* ray_cast answered (-1: nothing hit).
IntersectEdge(index) ==
    /\ pc = "intersect"
    /\ todo[1] > 0
    /\ index \in -1..(Len(proxy) - 1)
    /\ todo' = <<todo[1] - 1, 0>>
    /\ lastHit' = index
    /\ IF index # -1
       THEN /\ faces_error' = faces_error \cup {FaceMapIndex(index)}
            /\ expected' = expected \cup {proxy[index + 1].org}
       ELSE UNCHANGED <<faces_error, expected>>
    /\ UNCHANGED <<pc, orig, proxy, face_map, tmp, ret>>

\* mesh_helpers.py:155, ray_cast raises (for one, RuntimeError on an object
\* with no faces to build its ray-cast tree from): the exception leaves
\* bmesh_check_self_intersect_object at once.
IntersectRayError ==
    /\ pc = "intersect"
    /\ todo[1] > 0
    /\ Leave
    /\ ret' = [check |-> "intersect", status |-> "error", value |-> {}]
    /\ UNCHANGED tmp

\* mesh_helpers.py:159-163, after the loop.
IntersectReturn ==
    /\ pc = "intersect"
    /\ todo[1] = 0
    /\ RemoveTemp
    /\ Leave
    /\ ret' = [check |-> "intersect", status |-> "ok", value |-> faces_error]

\* mesh_helpers.py:196-220, bmesh_check_thick_object up to the loop.
ThickBegin(m) ==
    /\ pc = "idle"
    /\ tmp.objects < MaxTemp
    /\ pc' = "thick"
    /\ orig' = m.faces
    /\ proxy' = Triangulate(m.faces)
    /\ face_map' = FaceMapOf(m.faces)
    /\ todo' = <<0, NumPoints>>
    /\ faces_error' = {}
    /\ expected' = {}
    /\ lastHit' = -1
    /\ MakeTemp
    /\ ret' = NoReturn

\* The cursor after one more sample point of face todo[1].
ThickAdvance ==
    IF todo[2] > 1 THEN <<todo[1], todo[2] - 1>> ELSE <<todo[1] + 1, NumPoints>>

\* f.index of the proxy face at position i of bm.faces: a face of the
\* original mesh has the index bm.from_mesh gave it, its position; a face
\* bmesh.ops.triangulate added has the -1 of a new element, since nothing
\* calls bm.faces.index_update().
FIndex(i) == IF i < Len(orig) THEN i ELSE -1

\* mesh_helpers.py:226, the global generator after the next point of
\* bmesh_face_points_random(f, num_points=6) for the proxy face at position
\* todo[1]: the first point of a face seeds it with f.index (line 172),
\* every point draws twice (lines 177-178).
ThickDrawn ==
    LET entry == IF todo[2] = NumPoints THEN RandomSeed(FIndex(todo[1])) ELSE rng
    IN  RandomNext(RandomNext(entry))

\* mesh_helpers.py:226-239, one sample point of proxy face todo[1].
ThickCast(index) ==
    /\ pc = "thick"
    /\ todo[1] < Len(proxy)
    /\ index \in -1..(Len(proxy) - 1)
    /\ todo' = ThickAdvance
    /\ rng' = ThickDrawn
    /\ lastHit' = index
    /\ IF index # -1
       THEN /\ faces_error' =
                faces_error \cup {FOrgIndex(todo[1]), FOrgIndex(index)}
            /\ expected' =
                expected \cup {proxy[todo[1] + 1].org, proxy[index + 1].org}
       ELSE UNCHANGED <<faces_error, expected>>
    /\ UNCHANGED <<pc, orig, proxy, face_map, tmp, ret>>

\* mesh_helpers.py:231, ray_cast raises inside the loop, on a point that
\* line 226 has drawn.
ThickRayError ==
    /\ pc = "thick"
    /\ todo[1] < Len(proxy)
    /\ rng' = ThickDrawn
    /\ Leave
    /\ ret' = [check |-> "thick", status |-> "error", value |-> {}]
    /\ UNCHANGED tmp

\* mesh_helpers.py:241-248, after the loop.
ThickReturn ==
    /\ pc = "thick"
    /\ todo[1] = Len(proxy)
    /\ RemoveTemp
    /\ Leave
    /\ ret' = [check |-> "thick", status |-> "ok", value |-> faces_error]

NextCheck ==
    \/ \E m \in Meshes : IntersectBegin(m) /\ UNCHANGED <<varsModal, varsSample, varsSym>>
    \/ \E index \in -1..(MaxFaces * (MaxSides - 2)) :
            IntersectEdge(index) /\ UNCHANGED <<varsModal, varsSample, varsSym>>
    \/ IntersectRayError /\ UNCHANGED <<varsModal, varsSample, varsSym>>
    \/ IntersectReturn /\ UNCHANGED <<varsModal, varsSample, varsSym>>
    \/ \E m \in Meshes : ThickBegin(m) /\ UNCHANGED <<varsModal, varsSample, varsSym>>
    \/ \E index \in -1..(MaxFaces * (MaxSides - 2)) :
            ThickCast(index)
            /\ UNCHANGED <<varsModal, call, gen, out, first, folded, varsSym>>
    \/ ThickRayError
            /\ UNCHANGED <<varsModal, call, gen, out, first, folded, varsSym>>
    \/ ThickReturn /\ UNCHANGED <<varsModal, varsSample, varsSym>>

(***************************************************************************)
(*     object_print3d_utils / mesh_helpers.py : bmesh_face_points_random   *)
(*                                                                         *)
(* Numbers are fixed-point. random() answers k / Resolution, a margin is a *)
(* count of twentieths (1 is the default 0.05) and u1, u2 and the points   *)
(* are counted in units of 1 / Unit, where Unit = 20 * Resolution makes    *)
(* every product below exact.                                              *)
(***************************************************************************)

\* Largest face index and num_points drawn.
MaxFaceIndex == 2
MaxPoints == 2

\* The generator objects the calls make: two can be consumed in turn, or
\* one after the other.
Generators == {1, 2}

\* random() is kept to five decimals, rounded down.
Resolution == 100000
Unit == 20 * Resolution

\* RandomTable[a + 1][n] is the n-th random() after random.seed(a) of
\* Python 3's Mersenne Twister, times Resolution, rounded down.
RandomTable ==
    << << 84442, 75795, 42057, 25891, 51127, 40493, 78379, 30331, 47659, 58338,
          90811, 50468, 28183, 75580, 61836, 25050, 90974, 98278, 81021, 90216,
          31014, 72983, 89883, 68398, 47214, 10070, 43417, 61088, 91301, 96660,
          47700, 86530, 26049, 80502, 54869, 1404, 71970, 39882, 82484, 66815 >>,
       << 13436, 84743, 76377, 25506, 49543, 44949, 65159, 78872, 9385, 2834,
          83576, 43276, 76228, 210, 44538, 72154, 22876, 94527, 90142, 3058,
          2544, 54141, 93914, 38120, 21659, 42211, 2904, 22169, 43788, 49581,
          23308, 23086, 21878, 45960, 28978, 2148, 83757, 55645, 64229, 18590 >>,
       << 95603, 94782, 5655, 8487, 83549, 73596, 66973, 30813, 60594, 60680,
          58120, 15838, 43066, 39353, 72301, 99481, 94939, 54417, 44485, 26824,
          3592, 2744, 46489, 31846, 38001, 89178, 52575, 56051, 23612, 2385,
          32514, 13669, 51022, 99868, 67447, 18184, 89357, 79675, 73440, 90659 >>,
       << 23796, 54422, 36995, 60392, 62572, 6552, 1316, 83746, 25935, 23433,
          99564, 47026, 83646, 47635, 63906, 15061, 63486, 86804, 52318, 74125,
          67141, 6403, 75823, 59109, 30126, 3101, 86552, 47274, 71882, 87881,
          71412, 92109, 39496, 80090, 44462, 93558, 87886, 9745, 13596, 21698 >>,
       << 23604, 10316, 39605, 15497, 6651, 40159, 91795, 80045, 76516, 22192,
          53668, 27668, 17266, 10618, 21440, 92747, 82892, 80665, 80044, 19343,
          30984, 62697, 73189, 85464, 88005, 8671, 60585, 67170, 50595, 17779,
          47358, 8934, 93458, 86548, 54763, 30024, 90887, 57236, 88231, 84804 >>,
       << 62290, 74178, 79519, 94245, 73989, 92232, 2900, 46562, 94335, 64897,
          90090, 11320, 46906, 24657, 54376, 57394, 1311, 21672, 27948, 91634,
          76572, 15960, 79714, 13876, 61745, 12669, 177, 87140, 20945, 21548,
          98242, 87240, 28930, 96147, 53922, 67783, 20477, 94097, 69064, 96656 >>,
       << 79334, 82195, 48503, 26162, 45, 66281, 47025, 75973, 37316, 77013,
          27269, 80191, 72982, 41400, 53830, 68205, 19298, 55361, 80512, 26552,
          80336, 68568, 84428, 33558, 9313, 80028, 80478, 44521, 9378, 19716,
          63491, 29118, 95137, 58856, 20087, 65540, 36037, 93273, 90951, 51465 >>,
       << 32383, 15084, 65093, 7243, 53588, 36568, 5799, 50743, 3749, 43364,
          6985, 9071, 42451, 82685, 12380, 22323, 62743, 94770, 57710, 39668,
          97625, 4658, 85846, 28960, 14425, 11779, 30848, 81612, 18072, 58160,
          63891, 37239, 54774, 6278, 5960, 20595, 68039, 42759, 31414, 58556 >>,
       << 22670, 96229, 12633, 70481, 8518, 24744, 99912, 20939, 64186, 45913,
          45313, 49498, 19223, 83052, 8956, 23418, 1999, 26676, 40766, 90206,
          37907, 11373, 25835, 99160, 6308, 62016, 37720, 66084, 33843, 69130,
          49758, 64972, 90137, 58153, 14213, 6437, 94605, 48866, 19385, 94604 >>,
       << 46300, 37331, 13853, 86656, 643, 50278, 89829, 8081, 55427, 61665,
          4089, 37901, 70348, 45202, 72506, 15715, 23801, 11094, 50626, 92382,
          59042, 77420, 38366, 74609, 10166, 29117, 67423, 72570, 42175, 8771,
          26673, 20989, 28118, 80951, 19948, 88639, 87937, 5478, 37881, 49171 >> >>

Triangles ==
    { << <<0, 0, 0>>, <<2, 0, 0>>, <<0, 2, 1>> >>,
      << <<1, 1, -1>>, <<0, 0, 0>>, <<2, 0, 0>> >>,
      << <<0, 2, 1>>, <<1, 1, -1>>, <<2, 0, 0>> >> }

\* The calls of bmesh_face_points_random; a face nothing has indexed has
\* index -1.
Calls ==
    { [f |-> [index |-> i, verts |-> t], num_points |-> n, margin |-> m] :
        i \in -1..MaxFaceIndex, t \in Triangles, n \in 0..MaxPoints,
        m \in {0, 1} }

VAdd(a, b) == <<a[1] + b[1], a[2] + b[2], a[3] + b[3]>>
VSub(a, b) == <<a[1] - b[1], a[2] - b[2], a[3] - b[3]>>
VScale(k, a) == <<k * a[1], k * a[2], k * a[3]>>
Dot(a, b) == a[1] * b[1] + a[2] * b[2] + a[3] * b[3]

\* What random() answers in `state`, times Resolution.
Random(state) == RandomTable[state.seed + 1][state.n + 1]

\* mesh_helpers.py:169,177, uniform(0.0 + margin, 1.0 - margin) for the
\* draw k / Resolution, which is a + (b - a) * random(), in 1 / Unit.
Uniform(margin, k) == Resolution * margin + (20 - 2 * margin) * k

\* mesh_helpers.py:172, random.seed(f.index)
SeedFor(f) == RandomSeed(f.index)

\* mesh_helpers.py:179-183, the pair after the fold.
Fold(u1, u2) ==
    IF u1 + u2 > Unit THEN <<Unit - u1, Unit - u2>> ELSE <<u1, u2>>

\* mesh_helpers.py:185-188, the yielded point, in 1 / Unit.
PointAt(vecs, u) ==
    LET side1 == VSub(vecs[2], vecs[1])
        side2 == VSub(vecs[3], vecs[1])
    IN  VAdd(VScale(Unit, vecs[1]), VAdd(VScale(u[1], side1), VScale(u[2], side2)))

\* A generator object that is not made yet, and one that has ended.
NoGen == [left |-> -1, started |-> FALSE]
Ended == [left |-> -1, started |-> TRUE]

InitSample ==
    /\ call \in Calls
    /\ rng = Unseeded
    /\ gen = [g \in Generators |-> NoGen]
    /\ out = [g \in Generators |-> << >>]
    /\ first = << >>
    /\ folded = FALSE

\* The arguments the other specifications leave untouched.
IdleSample ==
    /\ call = [f |-> [index |-> 0, verts |-> << <<0, 0, 0>>, <<2, 0, 0>>, <<0, 2, 1>> >>],
               num_points |-> 0, margin |-> 1]
    /\ rng = Unseeded
    /\ gen = [g \in Generators |-> NoGen]
    /\ out = [g \in Generators |-> << >>]
    /\ first = << >>
    /\ folded = FALSE

\* mesh_helpers.py:166: the call makes a generator object; nothing of the
\* body has run yet.
SampleStart(g) ==
    /\ gen[g] = NoGen
    /\ gen' = [gen EXCEPT ![g] = [left |-> call.num_points, started |-> FALSE]]
    /\ out' = [out EXCEPT ![g] = << >>]
    /\ UNCHANGED <<rng, call, first, folded>>

\* mesh_helpers.py:167-174: the first next() on a generator runs the body
\* down to the loop, which seeds the global generator; a later next() goes
\* on from wherever the global generator is by then.
Entered(g) == IF gen[g].started THEN rng ELSE SeedFor(call.f)

\* mesh_helpers.py:176-188, a next() that yields: one pass of the loop.
SampleYield(g) ==
    /\ gen[g].left > 0
    /\ Entered(g).seed # -1
    /\ Entered(g).n + 2 <= Len(RandomTable[1])
    /\ LET s1 == RandomNext(Entered(g))
           u1 == Uniform(call.margin, Random(Entered(g)))
           u2 == Uniform(call.margin, Random(s1))
       IN  /\ rng' = RandomNext(s1)
           /\ out' = [out EXCEPT ![g] =
                          Append(@, PointAt(call.f.verts, Fold(u1, u2)))]
           /\ folded' = (folded \/ u1 + u2 > Unit)
    /\ gen' = [gen EXCEPT ![g] = [left |-> @.left - 1, started |-> TRUE]]
    /\ UNCHANGED <<call, first>>

\* mesh_helpers.py:176, a next() that finds range(num_points) used up: the
\* generator ends.
SampleStop(g) ==
    /\ gen[g].left = 0
    /\ rng' = Entered(g)
    /\ gen' = [gen EXCEPT ![g] = Ended]
    /\ first' = IF first = << >> THEN <<out[g]>> ELSE first
    /\ UNCHANGED <<call, out, folded>>

\* Any other use of the global generator, also while a generator object is
\* suspended at its yield: random.seed(a), or for a = -1 one random().
OtherRandom(a) ==
    /\ IF a = -1
       THEN rng.n < 2 * MaxPoints /\ rng' = RandomNext(rng)
       ELSE rng' = RandomSeed(a)
    /\ rng' # rng
    /\ UNCHANGED <<call, gen, out, first, folded>>

NextSample ==
    \/ \E g \in Generators :
            SampleStart(g) /\ UNCHANGED <<varsModal, varsCheck, varsSym>>
    \/ \E g \in Generators :
            SampleYield(g) /\ UNCHANGED <<varsModal, varsCheck, varsSym>>
    \/ \E g \in Generators :
            SampleStop(g) /\ UNCHANGED <<varsModal, varsCheck, varsSym>>
    \/ \E a \in -1..MaxFaceIndex :
            OtherRandom(a) /\ UNCHANGED <<varsModal, varsCheck, varsSym>>

(***************************************************************************)
(*          oscurart_tools / oscurart_meshes.py : the symmetry map         *)
(*                                                                         *)
(* Coordinates are the numbers Python reads from VERT.co, counted in units  *)
(* of 0.00005, so the 0.0001 of reSymSave is 2 units. Vertex i of the code *)
(* is verts[i + 1] here.                                                   *)
(***************************************************************************)

\* Largest number of vertices of the mesh in SpecSym, SpecVG and SpecRead,
\* and of the meshes SpecSave and SpecMirror start from.
MaxVerts == 2
MaxSaveVerts == 3

\* oscurart_meshes.py:257-258, the 0.0001 of the two comparisons.
EPS == 2

\* x runs over both sides of the plane, the band around it and its edge.
Xs == (0 - EPS)..EPS
Coords == { <<x, yz[1], yz[2]>> : x \in Xs, yz \in { <<0, 0>>, <<1, 2>> } }

\* The weights a vertex may carry (in halves), and
\* tool_settings.vertex_group_weight, which vertex_group_assign writes.
Weights == {1, 2}
ToolWeight == CHOOSE w \in Weights : \A u \in Weights : u <= w

\* What the edits of SpecSym draw from.
SymCoords == { <<x, 0, 0>> : x \in Xs } \cup { <<0 - EPS, 1, 2>>, <<EPS, 1, 2>> }
\* What the edits of SpecVG and the meshes of SpecRead draw from.
VGCoords == { <<0 - EPS, 0, 0>>, <<0, 0, 0>>, <<EPS, 0, 0>> }
VGGroups == {0}
VGWeights == {1}
\* The vertex lists and the _DATA entries of the files OscImportVG reads.
VGMembers == { <<0>>, <<0, 1>> }
VGData == { << >>, << <<0, 0, 1>> >>, << <<0, 1, 1>> >> }

Verts(i) == verts[i + 1]
NVerts == Len(verts)
Idx == 0..(NVerts - 1)

Mirror(co) == <<0 - co[1], co[2], co[3]>>

\* LeftOf with the threshold on the negative side of the plane.
LeftOfStrict(vs) ==
    [i \in { k \in 0..(Len(vs) - 1) : vs[k + 1].co[1] < 0 - EPS } |-> vs[i + 1].co]

\* oscurart_meshes.py:257, the dictionary L.
LeftOf(vs) ==
    [i \in { k \in 0..(Len(vs) - 1) : vs[k + 1].co[1] < EPS } |-> vs[i + 1].co]

\* RightOf with x stored as it is.
RightOfUnmirrored(vs) ==
    [i \in { k \in 0..(Len(vs) - 1) : vs[k + 1].co[1] > 0 - EPS } |-> vs[i + 1].co]

\* oscurart_meshes.py:258, the dictionary R: x is stored negated.
RightOf(vs) ==
    [i \in { k \in 0..(Len(vs) - 1) : vs[k + 1].co[1] > 0 - EPS } |->
        Mirror(vs[i + 1].co)]

\* A dict as the sequence of its <<key, value>> items in insertion order:
\* d[k] = v keeps the place of a key already there.
DictSet(d, k, v) ==
    IF \E p \in 1..Len(d) : d[p][1] = k
    THEN [p \in 1..Len(d) |-> IF d[p][1] = k THEN <<k, v>> ELSE d[p]]
    ELSE Append(d, <<k, v>>)

Keys(d) == { d[p][1] : p \in 1..Len(d) }
Values(d) == { d[p][2] : p \in 1..Len(d) }
Lookup(d, k) == d[CHOOSE p \in 1..Len(d) : d[p][1] = k][2]

\* oscurart_meshes.py:260, the comprehension {VERTL : VERTR for VERTR in R
\* for VERTL in L if R[VERTR] == L[VERTL]}, from pair number p on; pair p
\* is VERTR = p \div n, VERTL = p % n.
RECURSIVE SymapFrom(_, _, _, _, _)
SymapFrom(L, R, n, p, acc) ==
    IF p >= n * n THEN acc
    ELSE LET VERTR == p \div n
             VERTL == p % n
             hit == /\ VERTR \in DOMAIN R
                    /\ VERTL \in DOMAIN L
                    /\ R[VERTR] = L[VERTL]
         IN  SymapFrom(L, R, n, p + 1,
                       IF hit THEN DictSet(acc, VERTL, VERTR) ELSE acc)

\* oscurart_meshes.py:257-260, SYMAP of the mesh.
SYMAP(vs) == SymapFrom(LeftOf(vs), RightOf(vs), Len(vs), 0, << >>)

\* ---- where the file is

\* Paths are sequences of tokens: "/" is os.sep, any other token a name.
\* The .blend is not saved yet (bpy.data.filepath is ''), or saved as /d/b.
Unsaved == << >>
BlendPaths == { Unsaved, <<"/", "d", "/", "b">> }
Cwds == { <<"/">>, <<"/", "d">> }

\* "%s_%s_SYM_TEMPLATE.xml" % (scene name, object name)
TemplateName == <<"n">>

\* The places of os.sep in path p.
Seps(p) == { q \in 1..Len(p) : p[q] = "/" }
LastSep(p) == CHOOSE q \in Seps(p) : \A r \in Seps(p) : r <= q

\* str.rpartition(os.sep)[0]: what is before the last separator, '' when
\* there is none.
RPartitionHead(p) ==
    IF Seps(p) = {} THEN << >> ELSE SubSeq(p, 1, LastSep(p) - 1)

\* p.rstrip(os.sep)
RECURSIVE RStrip(_)
RStrip(p) ==
    IF p # << >> /\ p[Len(p)] = "/" THEN RStrip(SubSeq(p, 1, Len(p) - 1)) ELSE p

\* os.path.split(p)[0] of posixpath: what is up to the last separator,
\* without its trailing separators unless it is separators only.
SplitHead(p) ==
    LET head == IF Seps(p) = {} THEN << >> ELSE SubSeq(p, 1, LastSep(p))
    IN  IF RStrip(head) = << >> THEN head ELSE RStrip(head)

\* os.path.join(a, b) of posixpath for a relative b.
Join(a, b) ==
    IF a = << >> THEN b
    ELSE IF a[Len(a)] = "/" THEN a \o b
    ELSE a \o <<"/">> \o b

\* The file open() means by path p: a relative path starts at cwd.
Resolve(p) == IF p # << >> /\ p[1] = "/" THEN p ELSE Join(cwd, p)

\* oscurart_meshes.py:263-264 and 273-274, the path reSymSave writes and
\* reSymMesh reads.
SavePath == Join(SplitHead(filepath), TemplateName)

\* oscurart_meshes.py:113-115, the path resymVertexGroups reads.
ENTFILEPATH == RPartitionHead(filepath) \o <<"/">> \o TemplateName

\* ---- what is in the file

\* A file is held by what line 276 / 117, eval(file.readlines()[0]), makes
\* of it, and `map` is the sequence of items <<VERT, SYMAP[VERT]>> that a
\* loop over the value goes through:
\*   "missing"   there is no file, open() raises;
\*   "empty"     no line, readlines() is [] and [0] raises;
\*   an error    the first line is text on which eval() raises that error:
\*               '{0: 1' SyntaxError, 'abc' NameError, '1/0' ZeroDivisionError;
\*   "number"    the first line is an int, as '0';
\*   "list"      the first line is a list of ints, as '[1, 0]';
\*   "map"       the first line is a dict, as reSymSave writes it.
NoFile == [kind |-> "missing", map |-> << >>]
EvalErrors == {"SyntaxError", "NameError", "ZeroDivisionError"}

\* SYMAP[VERT] raises IndexError: VERT is no index of the list.
NoValue == -1

\* The items of the list l of ints from 0 up: VERT runs over the elements,
\* SYMAP[VERT] is the element at index VERT.
ItemsOfList(l) ==
    [p \in 1..Len(l) |->
        <<l[p], IF l[p] < Len(l) THEN l[l[p] + 1] ELSE NoValue>>]

\* The lists a hand-made file may hold.
FileLists == { <<0, 0>>, <<1, 0>>, <<1>> }

\* The files that are no dict.
BadFiles ==
    { [kind |-> k, map |-> << >>] : k \in {"empty", "number"} \cup EvalErrors }
    \cup { [kind |-> "list", map |-> ItemsOfList(l)] : l \in FileLists }

NoOp == [op |-> "none", status |-> "none", SELECTED |-> FALSE, SIDE |-> "none",
         L |-> << >>, R |-> << >>]

\* oscurart_meshes.py:116, the file resymVertexGroups opens: symfile when
\* its path means the file reSymSave writes; no other file of that name is
\* ever written.
VGFile == IF Resolve(ENTFILEPATH) = Resolve(SavePath) THEN symfile ELSE NoFile

\* A saved .blend, opened from its own directory.
SavedBlend ==
    /\ filepath = <<"/", "d", "/", "b">>
    /\ cwd = <<"/", "d">>

InitSym ==
    /\ verts = << >>
    /\ vertex_groups = 0
    /\ vg_active = -1
    /\ SavedBlend
    /\ symfile = NoFile
    /\ opres = NoOp
    /\ moved = {}

\* ---- edits of the mesh by the user, between operators

Edited == [NoOp EXCEPT !.op = "edit"]

MoveVertex(i, co) ==
    /\ i \in Idx
    /\ co # Verts(i).co
    /\ verts' = [verts EXCEPT ![i + 1].co = co]
    /\ opres' = Edited
    /\ UNCHANGED <<vertex_groups, vg_active, symfile>>

AddVertex(co) ==
    /\ NVerts < MaxVerts
    /\ verts' = Append(verts, [co |-> co, select |-> FALSE, groups |-> << >>])
    /\ opres' = Edited
    /\ UNCHANGED <<vertex_groups, vg_active, symfile>>

\* Deleting vertex i moves every later vertex one index down.
DeleteVertex(i) ==
    /\ i \in Idx
    /\ verts' = [p \in 1..(NVerts - 1) |-> IF p <= i THEN verts[p] ELSE verts[p + 1]]
    /\ opres' = Edited
    /\ UNCHANGED <<vertex_groups, vg_active, symfile>>

SelectVertex(i) ==
    /\ i \in Idx
    /\ verts' = [verts EXCEPT ![i + 1].select = ~@]
    /\ opres' = Edited
    /\ UNCHANGED <<vertex_groups, vg_active, symfile>>

\* ---- SelectMenor

\* oscurart_meshes.py:82, the offsets of SelectMenor in units of
\* 0.0001 / EPS: its default 0 and one step below it.
SideOffsets == {-1, 0}

\* oscurart_meshes.py:58-76, side(self, nombre, offset): every vertex is
\* deselected, then the vertices with x < offset (nombre False) or with
\* x > offset are selected.
SelectMenor(nombre, offset) ==
    /\ verts' = [p \in 1..NVerts |->
                    [verts[p] EXCEPT !.select =
                        IF nombre THEN verts[p].co[1] > offset
                                  ELSE verts[p].co[1] < offset]]
    /\ opres' = [NoOp EXCEPT !.op = "SelectMenor", !.status = "FINISHED"]
    /\ UNCHANGED <<vertex_groups, vg_active, symfile>>

\* ---- reConst

\* oscurart_meshes.py:51, OFFSET of reConst: its minimum 0, which puts no
\* vertex on the plane, and its default 0.001.
ReconstOffsets == {0, 10 * EPS}

\* oscurart_meshes.py:28, merge_threshold of the Mirror modifier that
\* modifier_add makes: 0.001.
MergeThreshold == 10 * EPS

Abs(x) == IF x < 0 THEN 0 - x ELSE x

\* The modifier merges a vertex with its mirror image when the two are
\* nearer than the threshold.
Merges(v) == 2 * Abs(v.co[1]) < MergeThreshold

\* oscurart_meshes.py:28-29,36, the mesh after the Mirror modifier is
\* applied with every vertex selected: the vertices that are not merged,
\* in their order, then the mirror image of every vertex. A merged pair
\* is one vertex, at the middle of the two when `centre`, at the image
\* otherwise: which one depends on the version of the host.
Mirrored(vs, centre) ==
    LET all == [p \in 1..Len(vs) |-> [vs[p] EXCEPT !.select = TRUE]]
        image(v) == [v EXCEPT !.co[1] = IF Merges(v) /\ centre THEN 0 ELSE 0 - @]
    IN  SelectSeq(all, LAMBDA v : ~Merges(v))
            \o [p \in 1..Len(all) |-> image(all[p])]

\* oscurart_meshes.py:14-55, reConst.execute: the vertices nearer to the
\* plane than OFFSET are put on it (lines 20-22), the vertices with x < 0
\* are selected and deleted, the others keeping their order (23-27), and
\* the rest is mirrored.
ReConst(OFFSET, centre) ==
    LET snapped == [p \in 1..NVerts |->
                       IF Abs(verts[p].co[1]) < OFFSET
                       THEN [verts[p] EXCEPT !.co[1] = 0] ELSE verts[p]]
        built == Mirrored(SelectSeq(snapped, LAMBDA v : ~(v.co[1] < 0)), centre)
    IN  /\ Len(built) <= MaxVerts
        /\ verts' = built
        /\ opres' = [NoOp EXCEPT !.op = "reConst", !.status = "FINISHED"]
        /\ UNCHANGED <<vertex_groups, vg_active, symfile>>

\* The file is deleted, or overwritten with text that is no dict.
RemoveFile ==
    /\ symfile.kind # "missing"
    /\ symfile' = NoFile
    /\ opres' = Edited
    /\ UNCHANGED <<verts, vertex_groups, vg_active>>

CorruptFile(f) ==
    /\ f \in BadFiles
    /\ symfile # f
    /\ symfile' = f
    /\ opres' = Edited
    /\ UNCHANGED <<verts, vertex_groups, vg_active>>

\* ---- reSymSave

\* oscurart_meshes.py:251-267 (OscResymSave.execute, 331-333): the file is
\* written anew with str(SYMAP); eval() of that text gives the same items in
\* the same order, so the file is held as the item sequence.
ReSymSave ==
    /\ symfile' = [kind |-> "map", map |-> SYMAP(verts)]
    /\ opres' = [NoOp EXCEPT !.op = "reSymSave", !.status = "FINISHED",
                             !.L = LeftOf(verts), !.R = RightOf(verts)]
    /\ UNCHANGED <<verts, vertex_groups, vg_active>>

\* ---- reSymMesh

\* ReadStatus of a reader that takes an unreadable file for an empty map.
ReadStatusLenient(f) == "ok"

\* oscurart_meshes.py:275-276 (116-117), what open(), readlines()[0] and
\* eval() do with the file.
ReadStatus(f) ==
    IF f.kind = "missing" THEN "IOError"
    ELSE IF f.kind = "empty" THEN "IndexError"
    ELSE IF f.kind \in EvalErrors THEN f.kind
    ELSE "ok"

\* oscurart_meshes.py:279 (118), `for VERT in SYMAP` on an int.
IterStatus(f) == IF f.kind = "number" THEN "TypeError" ELSE "ok"

\* Source that is the key of the item in both directions.
SourceIsKey(item, SIDE) == item[1]

\* oscurart_meshes.py:277-320. Of the item VERT -> SYMAP[VERT], the vertex
\* copied from and the vertex written.
Source(item, SIDE) == IF SIDE = "+-" THEN item[2] ELSE item[1]
Target(item, SIDE) == IF SIDE = "+-" THEN item[1] ELSE item[2]

\* oscurart_meshes.py:281-288 (and 291-298, 303-310, 313-320): the three
\* assignments to the target's co.
Written(vs, src, dst) ==
    IF src = dst
    THEN <<0, vs[dst + 1].co[2], vs[dst + 1].co[3]>>
    ELSE <<0 - vs[src + 1].co[1], vs[src + 1].co[2], vs[src + 1].co[3]>>

\* oscurart_meshes.py:279-320, the loop over SYMAP from item p on. BM.verts[i]
\* raises IndexError for an index the mesh does not have, SYMAP[VERT] for a
\* VERT the list does not have; what was written before stays written. With
\* Only Selected, "-+" tests BM.verts[VERT].select before it reads
\* SYMAP[VERT], "+-" reads SYMAP[VERT] first.
RECURSIVE ApplyFrom(_, _, _, _, _)
ApplyFrom(vs, m, p, SELECTED, SIDE) ==
    IF p > Len(m) THEN [verts |-> vs, status |-> "FINISHED"]
    ELSE LET src == Source(m[p], SIDE)
             dst == Target(m[p], SIDE)
             n == Len(vs)
             fails == m[p][2] = NoValue
         IN  IF (SIDE = "+-" \/ ~SELECTED) /\ fails
             THEN [verts |-> vs, status |-> "IndexError"]
             ELSE IF SELECTED /\ src >= n
             THEN [verts |-> vs, status |-> "IndexError"]
             ELSE IF SELECTED /\ ~vs[src + 1].select
             THEN ApplyFrom(vs, m, p + 1, SELECTED, SIDE)
             ELSE IF fails \/ src >= n \/ dst >= n
             THEN [verts |-> vs, status |-> "IndexError"]
             ELSE ApplyFrom([vs EXCEPT ![dst + 1].co = Written(vs, src, dst)],
                            m, p + 1, SELECTED, SIDE)

\* oscurart_meshes.py:269-324 (OscResymMesh.execute, 350-352).
ReSymMesh(SELECTED, SIDE) ==
    /\ LET st == ReadStatus(symfile)
           done == ApplyFrom(verts, symfile.map, 1, SELECTED, SIDE)
           aborted(status) ==
               /\ verts' = verts
               /\ opres' = [NoOp EXCEPT !.op = "reSymMesh", !.status = status,
                                        !.SELECTED = SELECTED, !.SIDE = SIDE]
       IN  IF st # "ok" THEN aborted(st)
           ELSE IF IterStatus(symfile) # "ok" THEN aborted(IterStatus(symfile))
           ELSE /\ verts' = done.verts
                /\ opres' = [NoOp EXCEPT !.op = "reSymMesh",
                                         !.status = done.status,
                                         !.SELECTED = SELECTED, !.SIDE = SIDE]
    /\ UNCHANGED <<vertex_groups, vg_active, symfile>>

\* ---- resymVertexGroups

InGroup(v, g) == \E q \in 1..Len(v.groups) : v.groups[q].group = g

\* The index i (from 1) of the entry of v.groups that is group g.
SlotOf(v, g) == CHOOSE q \in 1..Len(v.groups) : v.groups[q].group = g

WeightIn(v, g) == v.groups[SlotOf(v, g)].weight

\* bpy.ops.object.vertex_group_assign and the weight tools: vertex v gets
\* weight w in group g, in the entry it has or in a new one.
Assigned(v, g, w) ==
    IF InGroup(v, g)
    THEN [v EXCEPT !.groups[SlotOf(v, g)].weight = w]
    ELSE [v EXCEPT !.groups = Append(@, [group |-> g, weight |-> w])]

\* bpy.ops.object.vertex_group_add by the user: the new group is the last
\* one and becomes the active one.
AddGroup ==
    /\ vertex_groups < Cardinality(VGGroups)
    /\ vertex_groups' = vertex_groups + 1
    /\ vg_active' = vertex_groups
    /\ opres' = Edited
    /\ UNCHANGED <<verts, symfile>>

AssignWeight(i, g, w) ==
    /\ i \in Idx
    /\ g < vertex_groups
    /\ verts' = [verts EXCEPT ![i + 1] = Assigned(@, g, w)]
    /\ verts' # verts
    /\ opres' = Edited
    /\ UNCHANGED <<vertex_groups, vg_active, symfile>>

\* oscurart_meshes.py:107-109, SELVER: select_all(DESELECT) and
\* vertex_group_select() leave the members of the active group selected.
SELVER(vs, g) == { i \in 0..(Len(vs) - 1) : InGroup(vs[i + 1], g) }

\* oscurart_meshes.py:118, INL, from item p of SYMAP on.
RECURSIVE INLFrom(_, _, _)
INLFrom(m, p, selver) ==
    IF p > Len(m) THEN << >>
    ELSE (IF m[p][2] \in selver /\ m[p][1] # m[p][2] THEN <<m[p][1]>> ELSE << >>)
         \o INLFrom(m, p + 1, selver)

\* oscurart_meshes.py:120-121, BM.verts[VERT].select = True for the VERT of
\* inl from place p on; stops at the first index the mesh does not have.
RECURSIVE SelectFrom(_, _, _)
SelectFrom(vs, inl, p) ==
    IF p > Len(inl) THEN [verts |-> vs, status |-> "ok"]
    ELSE IF inl[p] >= Len(vs) THEN [verts |-> vs, status |-> "IndexError"]
    ELSE SelectFrom([vs EXCEPT ![inl[p] + 1].select = TRUE], inl, p + 1)

\* oscurart_meshes.py:124-136, the weight of SYMAP[VERT] in the active group
\* is written to VERT's entry for that group, for the VERT of inl from p on.
RECURSIVE CopyFrom(_, _, _, _, _)
CopyFrom(vs, m, inl, p, g) ==
    IF p > Len(inl) THEN vs
    ELSE LET VERT == inl[p]
             from == vs[Lookup(m, VERT) + 1]
             EM == SlotOf(from, g)
             REC == SlotOf(vs[VERT + 1], g)
         IN  CopyFrom([vs EXCEPT ![VERT + 1].groups[REC].weight =
                                      from.groups[EM].weight],
                      m, inl, p + 1, g)

\* oscurart_meshes.py:100-142, resymVertexGroups.execute. With no vertex
\* group on the object vertex_groups.active is None and line 103 raises.
ResymVertexGroups ==
    /\ LET selver == SELVER(verts, vg_active)
           picked == [p \in 1..NVerts |->
                         [verts[p] EXCEPT !.select = (p - 1) \in selver]]
           st == ReadStatus(VGFile)
           inl == INLFrom(VGFile.map, 1, selver)
           cleared == [p \in 1..NVerts |-> [verts[p] EXCEPT !.select = FALSE]]
           marked == SelectFrom(cleared, inl, 1)
           assigned == [p \in 1..NVerts |->
                           IF marked.verts[p].select
                           THEN Assigned(marked.verts[p], vg_active, ToolWeight)
                           ELSE marked.verts[p]]
           ended(vs, status) ==
               /\ verts' = vs
               /\ opres' = [NoOp EXCEPT !.op = "resymVertexGroups",
                                        !.status = status]
       IN  IF vg_active = -1 THEN ended(verts, "AttributeError")
           ELSE IF st # "ok" THEN ended(picked, st)
           ELSE IF IterStatus(VGFile) # "ok"
           THEN ended(picked, IterStatus(VGFile))
           ELSE IF \E q \in 1..Len(VGFile.map) : VGFile.map[q][2] = NoValue
           THEN ended(picked, "IndexError")
           ELSE IF marked.status # "ok" THEN ended(marked.verts, marked.status)
           ELSE ended(CopyFrom(assigned, VGFile.map, inl, 1, vg_active),
                      "FINISHED")
    /\ UNCHANGED <<vertex_groups, vg_active, symfile>>

\* ---- OscImportVG

\* The <object>.xml and <object>_DATA.xml files OscImportVG finds: `names`
\* is len(GROUPLIST[0]), `lists` is VERTLISTR with the vertex index of each
\* entry, `data` is DATAPVER as <<vertex, place in groups, weight>>.
NoImport == [kind |-> "missing", names |-> 0, lists |-> << >>,
             data_kind |-> "missing", data |-> << >>]

ImportFiles ==
    LET VERTLISTRs == { << >> } \cup { <<m>> : m \in VGMembers }
    IN  {NoImport}
        \cup { [NoImport EXCEPT !.kind = "lists", !.names = Len(l), !.lists = l] :
                  l \in VERTLISTRs }
        \cup { [kind |-> "lists", names |-> Len(l), lists |-> l,
                data_kind |-> "list", data |-> d] :
                  l \in VERTLISTRs, d \in VGData }

\* oscurart_meshes.py:222-223, select = 1 for the vertices of list `l` from
\* place p on.
RECURSIVE ImportSelect(_, _, _)
ImportSelect(vs, l, p) ==
    IF p > Len(l) THEN [verts |-> vs, status |-> "ok"]
    ELSE IF l[p] >= Len(vs) THEN [verts |-> vs, status |-> "IndexError"]
    ELSE ImportSelect([vs EXCEPT ![l[p] + 1].select = TRUE], l, p + 1)

\* oscurart_meshes.py:218-226, the loop over the n vertex groups of the
\* object from group k on: the group is made active, all is deselected, the
\* vertices VERTLISTR[VG.index] names are selected and assigned to it with
\* weight 1.
RECURSIVE ImportGroups(_, _, _, _, _)
ImportGroups(vs, active, lists, k, n) ==
    IF k >= n THEN [verts |-> vs, active |-> active, status |-> "ok"]
    ELSE LET cleared == [p \in 1..Len(vs) |-> [vs[p] EXCEPT !.select = FALSE]]
             marked == ImportSelect(cleared, lists[k + 1], 1)
             assigned == [p \in 1..Len(vs) |->
                             IF marked.verts[p].select
                             THEN Assigned(marked.verts[p], k, ToolWeight)
                             ELSE marked.verts[p]]
         IN  IF k >= Len(lists)
             THEN [verts |-> cleared, active |-> k, status |-> "IndexError"]
             ELSE IF marked.status # "ok"
             THEN [verts |-> marked.verts, active |-> k, status |-> marked.status]
             ELSE ImportGroups(assigned, k, lists, k + 1, n)

\* oscurart_meshes.py:238-239, the loop over DATAPVER from entry p on.
RECURSIVE ImportData(_, _, _)
ImportData(vs, data, p) ==
    IF p > Len(data) THEN [verts |-> vs, status |-> "FINISHED"]
    ELSE LET VERT == data[p]
         IN  IF VERT[1] >= Len(vs) \/ VERT[2] >= Len(vs[VERT[1] + 1].groups)
             THEN [verts |-> vs, status |-> "IndexError"]
             ELSE ImportData([vs EXCEPT ![VERT[1] + 1].groups[VERT[2] + 1].weight
                                            = VERT[3]],
                             data, p + 1)

\* oscurart_meshes.py:186-244, OscImportVG.execute. vertex_group_add makes
\* each group it adds the active one; tool_settings.vertex_group_weight = 1
\* is the ToolWeight it already has. The object is kept to the groups of
\* VGGroups.
ImportVG(file) ==
    /\ vertex_groups + file.names <= Cardinality(VGGroups)
    /\ LET n == vertex_groups + file.names
           added == IF file.names > 0 THEN n - 1 ELSE vg_active
           groups == ImportGroups(verts, added, file.lists, 0, n)
           data == ImportData(groups.verts, file.data, 1)
           ended(vs, ng, active, status) ==
               /\ verts' = vs
               /\ vertex_groups' = ng
               /\ vg_active' = active
               /\ opres' = [NoOp EXCEPT !.op = "OscImportVG", !.status = status]
       IN  IF file.kind = "missing"
           THEN ended(verts, vertex_groups, vg_active, "IOError")
           ELSE IF groups.status # "ok"
           THEN ended(groups.verts, n, groups.active, groups.status)
           ELSE IF file.data_kind = "missing"
           THEN ended(groups.verts, n, groups.active, "IOError")
           ELSE ended(data.verts, n, groups.active, data.status)
    /\ UNCHANGED symfile

OtherVars == <<moved, filepath, cwd, varsModal, varsCheck, varsSample>>

\* SpecSym: the geometry of the mesh, its selection and the file, under
\* every edit, SelectMenor, reConst and reSymSave / reSymMesh in any order.
\* No vertex is in a vertex group here, and the file is missing, a map, or
\* something else eval() reads; SpecVG has the weights and every file.
NextSym ==
    \/ \E i \in 0..(MaxVerts - 1), co \in SymCoords :
            MoveVertex(i, co) /\ UNCHANGED OtherVars
    \/ \E co \in SymCoords : AddVertex(co) /\ UNCHANGED OtherVars
    \/ \E i \in 0..(MaxVerts - 1) : DeleteVertex(i) /\ UNCHANGED OtherVars
    \/ \E i \in 0..(MaxVerts - 1) : SelectVertex(i) /\ UNCHANGED OtherVars
    \/ \E nombre \in BOOLEAN, offset \in SideOffsets :
            SelectMenor(nombre, offset) /\ UNCHANGED OtherVars
    \/ \E OFFSET \in ReconstOffsets, centre \in BOOLEAN :
            ReConst(OFFSET, centre) /\ UNCHANGED OtherVars
    \/ RemoveFile /\ UNCHANGED OtherVars
    \/ \E f \in { g \in BadFiles : g.kind \in {"number", "list"} } :
            CorruptFile(f) /\ UNCHANGED OtherVars
    \/ ReSymSave /\ UNCHANGED OtherVars
    \/ \E SELECTED \in BOOLEAN, SIDE \in {"+-", "-+"} :
            ReSymMesh(SELECTED, SIDE) /\ UNCHANGED OtherVars

\* SpecVG: the vertex-group weights, the topology and the file, under
\* every operator of oscurart_meshes.py the model has, in any order. One
\* vertex can be added far enough from the plane that neither the default
\* OFFSET of reConst puts it on the plane nor the modifier merges it.
NextVG ==
    \/ \E co \in VGCoords \cup { <<MergeThreshold, 0, 0>> } : AddVertex(co) /\ UNCHANGED OtherVars
    \/ \E i \in 0..(MaxVerts - 1) : DeleteVertex(i) /\ UNCHANGED OtherVars
    \/ \E nombre \in BOOLEAN, offset \in SideOffsets :
            SelectMenor(nombre, offset) /\ UNCHANGED OtherVars
    \/ \E OFFSET \in ReconstOffsets, centre \in BOOLEAN :
            ReConst(OFFSET, centre) /\ UNCHANGED OtherVars
    \/ AddGroup /\ UNCHANGED OtherVars
    \/ \E i \in 0..(MaxVerts - 1), g \in VGGroups, w \in VGWeights :
            AssignWeight(i, g, w) /\ UNCHANGED OtherVars
    \/ \E file \in ImportFiles : ImportVG(file) /\ UNCHANGED OtherVars
    \/ RemoveFile /\ UNCHANGED OtherVars
    \/ \E f \in BadFiles : CorruptFile(f) /\ UNCHANGED OtherVars
    \/ ReSymSave /\ UNCHANGED OtherVars
    \/ \E SELECTED \in BOOLEAN, SIDE \in {"+-", "-+"} :
            ReSymMesh(SELECTED, SIDE) /\ UNCHANGED OtherVars
    \/ ResymVertexGroups /\ UNCHANGED OtherVars

\* Meshes of bare vertices: no selection, no vertex groups.
BareMeshes ==
    UNION { [1..n -> [co : Coords, select : {FALSE}, groups : { << >> }]] :
                n \in 0..MaxSaveVerts }

\* For every position, as many vertices there as at its mirror image.
Symmetric(vs) ==
    \A co \in Coords :
        Cardinality({ p \in 1..Len(vs) : vs[p].co = co })
            = Cardinality({ p \in 1..Len(vs) : vs[p].co = Mirror(co) })

\* SpecSave: reSymSave as a function of the mesh it is run on.
InitSave ==
    /\ InitModal /\ InitCheck /\ IdleSample
    /\ verts \in BareMeshes
    /\ vertex_groups = 0
    /\ vg_active = -1
    /\ SavedBlend
    /\ symfile = NoFile
    /\ opres = NoOp
    /\ moved = {}

NextSave ==
    \/ ReSymSave /\ UNCHANGED OtherVars
    \/ RemoveFile /\ UNCHANGED OtherVars

\* SpecMirror: a map is saved on a mirror-symmetric mesh, then vertices that
\* were on the negative side are moved, then the map is applied "+-" to
\* the whole mesh.
InitMirror ==
    /\ InitModal /\ InitCheck /\ IdleSample
    /\ verts \in { m \in BareMeshes : Symmetric(m) }
    /\ vertex_groups = 0
    /\ vg_active = -1
    /\ SavedBlend
    /\ symfile = NoFile
    /\ opres = NoOp
    /\ moved = {}

MirrorSave ==
    /\ opres.op = "none"
    /\ ReSymSave
    /\ UNCHANGED OtherVars

MirrorMove(i, co) ==
    /\ symfile.kind = "map"
    /\ opres.op \in {"reSymSave", "edit"}
    /\ i \in moved \/ (i \in Idx /\ Verts(i).co[1] < 0)
    /\ MoveVertex(i, co)
    /\ moved' = moved \cup {i}
    /\ UNCHANGED <<filepath, cwd, varsModal, varsCheck, varsSample>>

MirrorApply ==
    /\ symfile.kind = "map"
    /\ ReSymMesh(FALSE, "+-")
    /\ UNCHANGED OtherVars

NextMirror ==
    \/ MirrorSave
    \/ \E i \in 0..(MaxSaveVerts - 1), co \in Coords : MirrorMove(i, co)
    \/ MirrorApply

\* SpecWeights: resymVertexGroups as a function of the mesh, its weights
\* and the active group: a map is saved on the mesh, then the operator runs.
VertexGroups == {0, 1}

\* The groups entries a vertex may start with: no group, one, or both in
\* either order.
GroupLists ==
    LET entries == [group : VertexGroups, weight : Weights]
    IN  { << >> } \cup { <<a>> : a \in entries }
        \cup { ab \in entries \X entries : ab[1].group # ab[2].group }

WeightMeshes ==
    UNION { [1..n -> [co : { <<x, 0, 0>> : x \in Xs }, select : {FALSE},
                      groups : GroupLists]] : n \in 0..MaxVerts }

InitWeights ==
    /\ InitModal /\ InitCheck /\ IdleSample
    /\ verts \in WeightMeshes
    /\ vertex_groups = Cardinality(VertexGroups)
    /\ vg_active \in VertexGroups
    /\ filepath \in BlendPaths
    /\ cwd \in Cwds
    /\ symfile = NoFile
    /\ opres = NoOp
    /\ moved = {}

NextWeights ==
    \/ /\ opres.op = "none"
       /\ ReSymSave
       /\ UNCHANGED OtherVars
    \/ /\ symfile.kind = "map"
       /\ ResymVertexGroups
       /\ UNCHANGED OtherVars

\* SpecRead: reSymMesh and resymVertexGroups as functions of the mesh, of
\* what the file holds and of where the .blend is: one run of either from
\* every mesh of up to MaxVerts vertices, with the file missing, holding
\* the map of the mesh, or holding anything else.
ReadMeshes(groups) ==
    UNION { [1..n -> [co : VGCoords, select : BOOLEAN, groups : groups]] :
                n \in 0..MaxVerts }

InitRead ==
    /\ InitModal /\ InitCheck /\ IdleSample
    /\ \/ /\ vertex_groups = 0
          /\ vg_active = -1
          /\ verts \in ReadMeshes({ << >> })
       \/ /\ vertex_groups = Cardinality(VGGroups)
          /\ vg_active \in VGGroups
          /\ verts \in ReadMeshes({ << >> } \cup
                    { <<[group |-> g, weight |-> w]>> :
                          g \in VGGroups, w \in Weights })
    /\ filepath \in BlendPaths
    /\ cwd \in Cwds
    /\ symfile \in {NoFile} \cup BadFiles
                     \cup { [kind |-> "map", map |-> SYMAP(verts)] }
    /\ opres = NoOp
    /\ moved = {}

NextRead ==
    \/ /\ opres.op = "none"
       /\ \E SELECTED \in BOOLEAN, SIDE \in {"+-", "-+"} :
              ReSymMesh(SELECTED, SIDE)
       /\ UNCHANGED OtherVars
    \/ /\ opres.op = "none"
       /\ ResymVertexGroups
       /\ UNCHANGED OtherVars

(***************************************************************************)
(*                           Specifications                                *)
(***************************************************************************)

Init == InitModal /\ InitCheck /\ IdleSample /\ InitSym

InitForSample == InitModal /\ InitCheck /\ InitSample /\ InitSym

SpecModal == Init /\ [][NextModal]_vars

\* The host keeps delivering events to an operator for as long as its modal
\* handler is registered; Start and Stop are the user's to press or not.
EventsKeepComing ==
    \A i \in 1..MaxOps :
        WF_vars(\E text \in BOOLEAN, blocked \in BOOLEAN :
                    Modal(i, text, blocked)
                    /\ UNCHANGED <<varsCheck, varsSample, varsSym>>)

SpecModalFair == SpecModal /\ EventsKeepComing
SpecCheck == Init /\ [][NextCheck]_vars
SpecSample == InitForSample /\ [][NextSample]_vars
SpecSym == Init /\ [][NextSym]_vars

\* SpecVG starts with the .blend saved or not, in directory /d.
InitVG ==
    /\ InitModal /\ InitCheck /\ IdleSample
    /\ verts = << >>
    /\ vertex_groups = 0
    /\ vg_active = -1
    /\ filepath \in BlendPaths
    /\ cwd = <<"/", "d">>
    /\ symfile = NoFile
    /\ opres = NoOp
    /\ moved = {}

SpecVG == InitVG /\ [][NextVG]_vars


SpecSave == InitSave /\ [][NextSave]_vars
SpecMirror == InitMirror /\ [][NextMirror]_vars

SpecWeights == InitWeights /\ [][NextWeights]_vars

SpecRead == InitRead /\ [][NextRead]_vars

(***************************************************************************)
(*                               Claims                                    *)
(***************************************************************************)

\* C1: whenever a check has ended, normally or by an error raised in its
\* loop, no temporary object, mesh or scene link is left.
C1_TempAlwaysCleanedUp ==
    pc = "idle" => tmp = NoTemp

\* C6: every point bmesh_face_points_random yields lies in the closed
\* triangle of the face (barycentric u1 >= 0, u2 >= 0, u1 + u2 <= 1), and a
\* later call with the same face yields the points of the first call again.
\* InTriangle solves p = v0 + u1*side1 + u2*side2 for (u1, u2) through the
\* Gram matrix of the sides, so it does not read how the point was made.
InTriangle(p, vecs) ==
    LET side1 == VSub(vecs[2], vecs[1])
        side2 == VSub(vecs[3], vecs[1])
        w == VSub(p, VScale(Unit, vecs[1]))
        g11 == Dot(side1, side1)
        g12 == Dot(side1, side2)
        g22 == Dot(side2, side2)
        det == g11 * g22 - g12 * g12
        n1 == Dot(w, side1) * g22 - Dot(w, side2) * g12
        n2 == Dot(w, side2) * g11 - Dot(w, side1) * g12
    IN  /\ det > 0
        /\ VScale(det, w) = VAdd(VScale(n1, side1), VScale(n2, side2))
        /\ n1 >= 0
        /\ n2 >= 0
        /\ n1 + n2 <= Unit * det

C6_SamplesInsideAndRepeatable ==
    \A g \in Generators :
        /\ \A i \in 1..Len(out[g]) : InTriangle(out[g][i], call.f.verts)
        /\ first # << >> =>
              /\ Len(out[g]) <= Len(first[1])
              /\ out[g] = SubSeq(first[1], 1, Len(out[g]))

\* C7: while running is true, modal() returns RUNNING_MODAL exactly when an
\* active text block exists and update() reported the event blocked, and
\* PASS_THROUGH otherwise; update() is not called without an active text
\* block; modal() returns nothing but FINISHED, RUNNING_MODAL, PASS_THROUGH.
C7_ModalConsumesIffBlocked ==
    lastModal.ret # "NONE" =>
        /\ lastModal.ret \in {"FINISHED", "RUNNING_MODAL", "PASS_THROUGH"}
        /\ lastModal.updated => lastModal.text
        /\ lastModal.wasRunning =>
              /\ lastModal.ret = "RUNNING_MODAL"
                    <=> (lastModal.text /\ lastModal.blocked)
              /\ lastModal.ret # "RUNNING_MODAL"
                    => lastModal.ret = "PASS_THROUGH"

\* C7 witness: an event was consumed while running.
C7_Witness ==
    /\ lastModal.wasRunning
    /\ lastModal.ret = "RUNNING_MODAL"
    /\ lastModal.updated

\* C10: the error set of either check holds indices of original faces only,
\* and exactly the original faces the recorded proxy faces were cut from,
\* while the check runs and in what it returns.
C10_ErrorsAreOriginalFaces ==
    /\ [](/\ faces_error \subseteq 0..(Len(orig) - 1)
          /\ faces_error = expected
          /\ ret.value \subseteq 0..(Len(orig) - 1))
    /\ [][(pc' = "idle" /\ ret'.status = "ok") => ret'.value = expected]_vars

\* C10 witness: in the thickness check a ray from one original face has hit
\* a triangle that triangulation added for another, and both are recorded.
C10_Witness ==
    /\ pc = "thick"
    /\ lastHit >= Len(orig)
    /\ Cardinality(faces_error) = 2

\* The vertices of the mesh that share no position with another vertex.
NoCoincident(vs) ==
    \A p, q \in 1..Len(vs) : p # q => vs[p].co # vs[q].co

\* The map m pairs the vertices of vs across the plane: no two keys have the
\* same value, every vertex with x < 0 is a key whose value is a vertex with
\* x > 0 at its mirror image, every vertex with x > 0 is the value of a key,
\* and every vertex with x = 0 is a key whose value is itself.
PairsAcrossPlane(m, vs) ==
    /\ Cardinality(Values(m)) = Len(m)
    /\ \A i \in 0..(Len(vs) - 1) :
          LET x == vs[i + 1].co[1]
          IN  /\ x < 0 =>
                    /\ i \in Keys(m)
                    /\ vs[Lookup(m, i) + 1].co[1] > 0
                    /\ vs[Lookup(m, i) + 1].co = Mirror(vs[i + 1].co)
              /\ x > 0 => i \in Values(m)
              /\ x = 0 => (i \in Keys(m) /\ Lookup(m, i) = i)

\* C2 as stated: after reSymSave on a mirror-symmetric mesh the map is a
\* bijection pairing every negative-x vertex with one positive-x vertex at
\* (-x, y, z) and every on-plane vertex with itself.
C2_SymmetricMeshGivesBijection ==
    (opres.op = "reSymSave" /\ Symmetric(verts))
        => PairsAcrossPlane(symfile.map, verts)

\* C2 amended: the same, for the mirror-symmetric meshes in which no two
\* vertices share a position.
C2_DistinctSymmetricMeshGivesBijection ==
    (opres.op = "reSymSave" /\ Symmetric(verts) /\ NoCoincident(verts))
        => PairsAcrossPlane(symfile.map, verts)

\* C2 witness: a map was saved on a symmetric mesh of distinct vertices that
\* has a pair across the plane and a vertex on it.
C2_Witness ==
    /\ opres.op = "reSymSave"
    /\ Symmetric(verts)
    /\ NoCoincident(verts)
    /\ \E i \in Idx : Verts(i).co[1] <= 0 - EPS
    /\ \E i \in Idx : Verts(i).co[1] = 0
    /\ Len(symfile.map) = 2

\* C3: a "+-" application to the whole mesh, after a save on a symmetric
\* mesh and moves of negative-side vertices only, puts every mapped
\* negative-side vertex at the mirror image of its partner (x = 0 and its
\* own y, z for a self-mapped vertex) and changes no positive-x vertex.
C3_PlusMinusRestoresNegativeSide ==
    [][(opres'.op = "reSymMesh" /\ opres.op # "reSymMesh") =>
          LET m == symfile.map
              negative(i) == i \in moved \/ Verts(i).co[1] < 0
          IN  /\ opres'.status = "FINISHED"
              /\ \A k \in Keys(m) :
                    /\ (negative(k) /\ Lookup(m, k) # k) =>
                          verts'[k + 1].co = Mirror(Verts(Lookup(m, k)).co)
                    /\ Lookup(m, k) = k =>
                          verts'[k + 1].co
                              = <<0, Verts(k).co[2], Verts(k).co[3]>>
              /\ \A i \in Idx :
                    (~negative(i) /\ Verts(i).co[1] > 0) =>
                          verts'[i + 1].co = Verts(i).co
      ]_vars

\* C4: whenever reSymMesh or resymVertexGroups has used a map, every key and
\* every value of the map is the index of a vertex of the mesh.
C4_MapIndicesExistWhenUsed ==
    /\ (opres.op = "reSymMesh" /\ symfile.kind = "map")
          => (Keys(symfile.map) \cup Values(symfile.map)) \subseteq Idx
    /\ (opres.op = "resymVertexGroups" /\ opres.status # "AttributeError"
            /\ VGFile.kind = "map")
          => (Keys(VGFile.map) \cup Values(VGFile.map)) \subseteq Idx

\* C5 as stated: a run of reSymMesh or resymVertexGroups on a file that is
\* missing or whose content is malformed, that is any file that does not
\* hold a map, does not return FINISHED and leaves the coordinates and the
\* vertex-group weights of every vertex as they were. reSymMesh reads
\* symfile; resymVertexGroups reads VGFile, once it has found the active
\* vertex group. Fails on a first line that evaluates to a list: the loops
\* walk it, write coordinates or weights, and the run can return FINISHED.
C5_MalformedFileAbortsUntouched ==
    [][LET f == IF opres'.op = "reSymMesh" THEN symfile ELSE VGFile
       IN  (/\ opres'.op \in {"reSymMesh", "resymVertexGroups"}
            /\ opres'.op = "resymVertexGroups" => vg_active # -1
            /\ f.kind # "map")
           => /\ opres'.status # "FINISHED"
              /\ Len(verts') = Len(verts)
              /\ \A p \in 1..Len(verts) :
                    /\ verts'[p].co = verts[p].co
                    /\ verts'[p].groups = verts[p].groups
      ]_vars

\* C5, corrected: a run of reSymMesh or resymVertexGroups whose read of the
\* file fails, the file being missing, empty, or text that eval() raises on,
\* ends with the error of the read (IOError of open, IndexError of
\* readlines()[0], the error eval raised), not FINISHED, and leaves the
\* coordinates and the vertex-group weights of every vertex as they were.
\* A first line that evaluates, to a dict or not, is no failure of the read.
C5_ReadFailureAbortsUntouched ==
    [][LET f == IF opres'.op = "reSymMesh" THEN symfile ELSE VGFile
       IN  (/\ opres'.op \in {"reSymMesh", "resymVertexGroups"}
            /\ opres'.op = "resymVertexGroups" => vg_active # -1
            /\ f.kind \in {"missing", "empty"} \cup EvalErrors)
           => /\ f.kind = "missing" => opres'.status = "IOError"
              /\ f.kind = "empty" => opres'.status = "IndexError"
              /\ f.kind \in EvalErrors => opres'.status = f.kind
              /\ Len(verts') = Len(verts)
              /\ \A p \in 1..Len(verts) :
                    /\ verts'[p].co = verts[p].co
                    /\ verts'[p].groups = verts[p].groups
      ]_vars

\* C5 witness: resymVertexGroups has aborted on a file eval() raised
\* NameError on, on a mesh with a vertex in the active group.
C5_Witness ==
    /\ opres.op = "resymVertexGroups"
    /\ opres.status = "NameError"
    /\ VGFile.kind = "NameError"
    /\ \E i \in Idx : InGroup(Verts(i), vg_active)

\* C8: every item a save puts in the map has equal left and right vectors,
\* L[key] = R[value]; a run of reSymMesh changes the coordinates of no vertex
\* but the target of an item of the map (the key for "+-", the value for
\* "-+"), with Only Selected on only of an item whose other vertex, the
\* one copied from, is selected; it changes nothing else of the mesh.
C8_OnlyMappedTargetsChange ==
    [][/\ opres'.op = "reSymSave" =>
             \A p \in 1..Len(symfile'.map) :
                LET k == symfile'.map[p][1]
                    v == symfile'.map[p][2]
                IN  /\ k \in Idx
                    /\ v \in Idx
                    /\ Verts(k).co = Mirror(Verts(v).co)
       /\ opres'.op = "reSymMesh" =>
             /\ Len(verts') = Len(verts)
             /\ \A i \in Idx :
                   /\ verts'[i + 1].select = Verts(i).select
                   /\ verts'[i + 1].groups = Verts(i).groups
                   /\ verts'[i + 1].co # Verts(i).co =>
                         \E p \in 1..Len(symfile.map) :
                            LET k == symfile.map[p][1]
                                v == symfile.map[p][2]
                                target == IF opres'.SIDE = "+-" THEN k ELSE v
                                source == IF opres'.SIDE = "+-" THEN v ELSE k
                            IN  /\ target = i
                                /\ opres'.SELECTED =>
                                      (source \in Idx /\ Verts(source).select)
      ]_vars

\* C8 witness: reSymMesh has run to its end with Only Selected on over a map
\* of two items, the source of one selected and the source of the other not.
C8_Witness ==
    /\ opres.op = "reSymMesh"
    /\ opres.status = "FINISHED"
    /\ opres.SELECTED
    /\ Len(symfile.map) = 2
    /\ \E p, q \in 1..2 :
          /\ Verts(Source(symfile.map[p], opres.SIDE)).select
          /\ ~Verts(Source(symfile.map[q], opres.SIDE)).select

\* C9 as stated: L holds the vertices with x < -0.0001, R those with
\* x > +0.0001 with x negated; no vertex is in both and a vertex with
\* |x| < 0.0001 is in neither.
C9_SidesDisjoint ==
    opres.op = "reSymSave" =>
        /\ DOMAIN opres.L = { i \in Idx : Verts(i).co[1] < 0 - EPS }
        /\ DOMAIN opres.R = { i \in Idx : Verts(i).co[1] > EPS }
        /\ \A i \in DOMAIN opres.R : opres.R[i] = Mirror(Verts(i).co)
        /\ DOMAIN opres.L \cap DOMAIN opres.R = {}

\* C9 amended: L holds the vertices with x < +0.0001 with their coordinates,
\* R those with x > -0.0001 with x negated; a vertex is in both exactly when
\* |x| < 0.0001, and every vertex is in one of them.
C9_SidesOverlapAtPlane ==
    opres.op = "reSymSave" =>
        /\ DOMAIN opres.L = { i \in Idx : Verts(i).co[1] < EPS }
        /\ DOMAIN opres.R = { i \in Idx : Verts(i).co[1] > 0 - EPS }
        /\ \A i \in DOMAIN opres.L : opres.L[i] = Verts(i).co
        /\ \A i \in DOMAIN opres.R : opres.R[i] = Mirror(Verts(i).co)
        /\ \A i \in Idx :
              /\ i \in DOMAIN opres.L \cup DOMAIN opres.R
              /\ i \in DOMAIN opres.L \cap DOMAIN opres.R
                    <=> (0 - EPS < Verts(i).co[1] /\ Verts(i).co[1] < EPS)

\* C9 witness: a save on a mesh with a vertex at the plane, one in the band
\* beside it and one at x = -0.0001.
C9_Witness ==
    /\ opres.op = "reSymSave"
    /\ \E i \in Idx : Verts(i).co[1] = 0
    /\ \E i \in Idx : Verts(i).co[1] = 1
    /\ \E i \in Idx : Verts(i).co[1] = 0 - EPS

\* C11: a run of resymVertexGroups that finishes leaves, for every item
\* k -> v of the map with k # v whose v was in the active group, vertex k in
\* the active group with the weight v had there; it leaves the groups of
\* every such v and of every self-mapped vertex, and every vertex's
\* membership and weight in the other groups, as they were.
C11_WeightsMirroredThroughMap ==
    [][(opres'.op = "resymVertexGroups" /\ opres'.status = "FINISHED") =>
          LET m == VGFile.map
              g == vg_active
              copied == { p \in 1..Len(m) :
                            m[p][1] # m[p][2] /\ InGroup(Verts(m[p][2]), g) }
          IN  /\ Len(verts') = Len(verts)
              /\ \A p \in copied :
                    /\ InGroup(verts'[m[p][1] + 1], g)
                    /\ WeightIn(verts'[m[p][1] + 1], g)
                          = WeightIn(Verts(m[p][2]), g)
                    /\ verts'[m[p][2] + 1].groups = Verts(m[p][2]).groups
              /\ \A p \in 1..Len(m) :
                    m[p][1] = m[p][2] =>
                        verts'[m[p][1] + 1].groups = Verts(m[p][1]).groups
              /\ \A i \in Idx, h \in VertexGroups \ {g} :
                    /\ InGroup(verts'[i + 1], h) <=> InGroup(Verts(i), h)
                    /\ InGroup(Verts(i), h) =>
                          WeightIn(verts'[i + 1], h) = WeightIn(Verts(i), h)
      ]_vars

\* The operators whose modal handler is registered and not freed.
Live == { i \in 1..Len(ops) : ops[i].registered /\ ops[i].frees = 0 }

\* C12: under every interleaving of Start, Stop and event deliveries at
\* most one StartAutoCompletion operator with an unfreed ModalHandler is
\* live.
C12_AtMostOneLiveModal ==
    Cardinality(Live) <= 1

\* C13: once running is false every live operator terminates if events keep
\* reaching it; an event delivered while running is false is answered
\* FINISHED with the handler freed and update() not called; a handler is
\* freed once at most and never while running is true.
C13_StoppedOperatorsTerminate ==
    /\ \A i \in 1..MaxOps :
          (~running /\ i \in Live) ~> (i \notin Live)
    /\ [][/\ (lastModal' # lastModal /\ ~running) =>
                /\ lastModal'.ret = "FINISHED"
                /\ ~lastModal'.updated
                /\ ops'[lastModal'.op].frees = 1
                /\ ~ops'[lastModal'.op].registered
          /\ \A i \in 1..Len(ops) :
                ops'[i].frees # ops[i].frees =>
                    (~running /\ ops[i].frees = 0 /\ ops'[i].frees = 1)
         ]_vars

====
